---- MODULE Spec2Model ----
(***************************************************************************)
(* Model of ocl::Device (src/Code/src/ocl_device.cpp): the lifetime of a   *)
(* device handle against the native reference count of the device it       *)
(* wraps, the version-string parse behind supportsVersion and the token    *)
(* scan behind supportsExtension.                                          *)
(*                                                                         *)
(* Strings are sequences of one-character strings.  Three specifications   *)
(* share the module: Spec (handle lifetime), SpecVersion (supportsVersion) *)
(* and SpecExt (the supportsExtension scan, one loop iteration per step).  *)
(***************************************************************************)
EXTENDS Integers, Sequences, FiniteSets

VARIABLES
  \* ---- handle lifetime ----
  OPENCL_V1_2,      \* the build flag of #ifdef OPENCL_V1_2
  platformVersion,  \* device -> CL_PLATFORM_VERSION string of its owning platform
  refCount,         \* device -> native reference count (0: released)
  live,             \* handle slot -> a Device object exists there
  id,               \* handle slot -> Device::_id (0 is the null identifier)
  type,             \* handle slot -> Device::_type
  terminated,       \* an error left a destructor: the program has ended
  lastOp,           \* the operation that ran last
  calls,            \* the native calls that operation issued, in order
  err,              \* the error that operation surfaced to its caller
  \* ---- supportsVersion ----
  versionStr,       \* what version() returns
  reqMajor, reqMinor,
  vResult,
  vpc,
  \* ---- supportsExtension scan ----
  extensionsString, \* what extensions() returns
  extension,        \* the queried name
  beyond,           \* the bytes of memory that follow the string's terminator
  p,                \* read position, an offset from c_str()
  eResult,
  epc

lifeVars == <<OPENCL_V1_2, platformVersion, refCount, live, id, type,
              terminated, lastOp, calls, err>>
verVars  == <<versionStr, reqMajor, reqMinor, vResult, vpc>>
extVars  == <<extensionsString, extension, beyond, p, eResult, epc>>
vars     == <<lifeVars, verVars, extVars>>

----------------------------------------------------------------------------
\* Bounds of the model.
NDev == 2
NHandles == 2
MaxRefCount == 2
MaxTail == 4
MaxReq == 2
MaxExtLen == 3
MaxNameLen == 2
MaxBeyond == 2

Dev == 1..NDev
Handles == 1..NHandles

\* All sequences over S of length at most n.
SeqsUpTo(S, n) == UNION {[1..k -> S] : k \in 0..n}

----------------------------------------------------------------------------
\* sscanf( s, "OpenCL %i.%i", &mjr, &mnr )

OpenCLLit == <<"O", "p", "e", "n", "C", "L">>

IsSpace(c) == c \in {" ", "\t", "\n"}

DigitVal(c) ==
  CASE c = "0" -> 0 [] c = "1" -> 1 [] c = "2" -> 2 [] c = "3" -> 3
    [] c = "4" -> 4 [] c = "5" -> 5 [] c = "6" -> 6 [] c = "7" -> 7
    [] c = "8" -> 8 [] c = "9" -> 9
    [] c \in {"a", "A"} -> 10 [] c \in {"b", "B"} -> 11
    [] c \in {"c", "C"} -> 12 [] c \in {"d", "D"} -> 13
    [] c \in {"e", "E"} -> 14 [] c \in {"f", "F"} -> 15
    [] OTHER -> 99

IsDigit(c, base) == DigitVal(c) < base

\* The first position at or after i that holds no white space.
RECURSIVE SkipSpace(_, _)
SkipSpace(s, i) ==
  IF i <= Len(s) /\ IsSpace(s[i]) THEN SkipSpace(s, i + 1) ELSE i

\* The first position at or after i that holds no digit of the base.
RECURSIVE DigitsEnd(_, _, _)
DigitsEnd(s, i, base) ==
  IF i <= Len(s) /\ IsDigit(s[i], base) THEN DigitsEnd(s, i + 1, base) ELSE i

\* The value of the digits s[i..j-1], acc being the value read so far.
RECURSIVE DigitsValue(_, _, _, _, _)
DigitsValue(s, i, j, base, acc) ==
  IF i >= j THEN acc
  ELSE DigitsValue(s, i + 1, j, base, acc * base + DigitVal(s[i]))

\* The %i conversion at position i: white space is skipped, then an optional
\* sign, then a 0x/0X prefix selects base 16, a leading 0 base 8, anything
\* else base 10.  No digit: a matching failure.
ScanInt(s, i) ==
  LET j     == SkipSpace(s, i)
      neg   == j <= Len(s) /\ s[j] = "-"
      k     == IF j <= Len(s) /\ s[j] \in {"-", "+"} THEN j + 1 ELSE j
      hex   == /\ k + 2 <= Len(s)
               /\ s[k] = "0"
               /\ s[k + 1] \in {"x", "X"}
               /\ IsDigit(s[k + 2], 16)
      base  == IF hex THEN 16
               ELSE IF k <= Len(s) /\ s[k] = "0" THEN 8 ELSE 10
      start == IF hex THEN k + 2 ELSE k
      e     == DigitsEnd(s, start, base)
      v     == DigitsValue(s, start, e, base, 0)
  IN  [ok |-> e > start, val |-> IF neg THEN 0 - v ELSE v, next |-> e]

\* The first position at or after i that holds white space.
RECURSIVE WordEnd(_, _)
WordEnd(s, i) ==
  IF i <= Len(s) /\ ~IsSpace(s[i]) THEN WordEnd(s, i + 1) ELSE i

\* A parse that accepts any first word where the format has "OpenCL".
ScanVersionAnyPrefix(s) ==
  LET w == WordEnd(s, 1)
  IN  IF w = 1 THEN <<0, 0>>
      ELSE LET a == ScanInt(s, SkipSpace(s, w))
           IN  IF ~a.ok THEN <<0, 0>>
               ELSE IF a.next > Len(s) \/ s[a.next] # "." THEN <<a.val, 0>>
               ELSE LET b == ScanInt(s, a.next + 1)
                    IN  IF b.ok THEN <<a.val, b.val>> ELSE <<a.val, 0>>

\* mjr and mnr start at 0 and keep that value when their conversion is not
\* reached; the result of sscanf is not looked at.
ScanVersion(s) ==
  IF ~(Len(s) >= Len(OpenCLLit) /\ SubSeq(s, 1, Len(OpenCLLit)) = OpenCLLit)
  THEN <<0, 0>>
  ELSE LET a == ScanInt(s, SkipSpace(s, Len(OpenCLLit) + 1))
       IN  IF ~a.ok THEN <<0, 0>>
           ELSE IF a.next > Len(s) \/ s[a.next] # "." THEN <<a.val, 0>>
           ELSE LET b == ScanInt(s, a.next + 1)
                IN  IF b.ok THEN <<a.val, b.val>> ELSE <<a.val, 0>>

\* supportsVersion's return expression.
VersionAtLeast(v, major, minor) ==
  v[1] > major \/ (v[1] = major /\ v[2] >= minor)

supportsVersion(s, major, minor) ==
  VersionAtLeast(ScanVersion(s), major, minor)

----------------------------------------------------------------------------
\* supportsAtLeast1Point2 and the native layer it, platform() and the
\* retain/release calls talk to.

\* The CL_PLATFORM_VERSION strings of the platforms the devices live on.
PlatformVersions ==
  { <<"O", "p", "e", "n", "C", "L", " ", "1", ".", "1">>,
    <<"O", "p", "e", "n", "C", "L", " ", "1", ".", "2">> }

\* CL_DEVICE_TYPE of a device, mapped by ocl::DeviceType::type.
DeviceTypeOf(d) ==
  CASE d = 1 -> "GPU" [] d = 2 -> "CPU" [] OTHER -> "ACCELERATOR"


\* One native call: the function, the identifier it was given (for
\* clGetPlatformInfo, the device whose platform it was given), the status
\* it returned, and whether that identifier named a device whose reference
\* count was still positive when the call was issued.
Call(fn, d, ok) ==
  [fn |-> fn, dev |-> d, ok |-> ok,
   valid |-> IF d \in Dev THEN refCount[d] > 0 ELSE FALSE]

\* The status a native call on identifier d returns when the environment
\* would let it succeed: the null identifier is CL_INVALID_DEVICE.
NativeOk(d, ok) == d # 0 /\ ok

\* OPENCL_SAFE_CALL: a non-success status becomes an error for the caller.
SafeCall(ok) == IF ok THEN "none" ELSE "NativeApiError"

\* The return expression of supportsAtLeast1Point2.
AtLeast1Point2(v) == v[1] > 1 \/ (v[1] = 1 /\ v[2] > 1)

\* supportsAtLeast1Point2( id ): the status of clGetPlatformInfo is not
\* looked at; when the call fails, version[] is parsed as it was left,
\* uninitialised, and the answer is whatever that memory holds (garbage).
supportsAtLeast1Point2(d, okPlat, garbage) ==
  IF okPlat THEN AtLeast1Point2(ScanVersion(platformVersion[d])) ELSE garbage

\* The inputs the environment supplies to one operation: the status of each
\* native call, whether the platform query hands back a platform, and the
\* content of an uninitialised buffer.  An input that is never looked at
\* (the call it belongs to is not reached) is listed once, as FALSE.
Inputs ==
  { in \in [okInfo : BOOLEAN, plFound : BOOLEAN, okPlat : BOOLEAN,
            garbage : BOOLEAN, okRef : BOOLEAN] :
      /\ ~in.okInfo => ~in.plFound
      /\ ~in.plFound => (~in.okPlat /\ ~in.garbage /\ ~in.okRef)
      /\ in.okPlat => ~in.garbage
      /\ (~in.okPlat /\ ~in.garbage) => ~in.okRef }

NoInput ==
  [okInfo |-> FALSE, plFound |-> FALSE, okPlat |-> FALSE,
   garbage |-> FALSE, okRef |-> FALSE]

\* The inputs an operation working through identifier d can look at: none
\* when no native call can succeed (the null identifier) or none is compiled
\* in.
InputsFor(d) == IF OPENCL_V1_2 /\ d # 0 THEN Inputs ELSE {NoInput}

\* Device::platform() on identifier d: the calls issued and the error raised.
platform(d, in) ==
  LET ok == NativeOk(d, in.okInfo)
      c  == Call("clGetDeviceInfo", d, ok)
  IN  IF SafeCall(ok) # "none" THEN [calls |-> <<c>>, err |-> SafeCall(ok)]
      ELSE IF ~in.plFound THEN [calls |-> <<c>>, err |-> "PlatformNotFound"]
      ELSE [calls |-> <<c>>, err |-> "none"]

\* if ( supportsAtLeast1Point2( platform() ) ) OPENCL_SAFE_CALL( fn( _id ) );
\* done: the retain or release was issued and succeeded.
RefGate(d, fn, in) ==
  LET pl == platform(d, in)
      c2 == Call("clGetPlatformInfo", d, in.okPlat)
      c3 == Call(fn, d, NativeOk(d, in.okRef))
  IN  IF pl.err # "none" THEN [calls |-> pl.calls, err |-> pl.err, done |-> FALSE]
      ELSE IF ~supportsAtLeast1Point2(d, in.okPlat, in.garbage)
      THEN [calls |-> pl.calls \o <<c2>>, err |-> "none", done |-> FALSE]
      ELSE [calls |-> pl.calls \o <<c2, c3>>, err |-> SafeCall(c3.ok),
            done |-> c3.ok]

\* The native count after a successful clRetainDevice / clReleaseDevice.  A
\* device whose count reached zero has been deleted and stays so.
Retained(d) ==
  IF d \in Dev /\ refCount[d] > 0 THEN [refCount EXCEPT ![d] = @ + 1] ELSE refCount

Released(d) ==
  IF d \in Dev /\ refCount[d] > 0 THEN [refCount EXCEPT ![d] = @ - 1] ELSE refCount

Op(name, h, src, d) == [name |-> name, h |-> h, src |-> src, dev |-> d]

----------------------------------------------------------------------------
\* The operations on handles.

\* Device::Device(cl_device_id dev)
Construct(h, d, ok) ==
  /\ ~terminated /\ ~live[h]
  /\ LET c == Call("clGetDeviceInfo", d, NativeOk(d, ok))
     IN  /\ calls' = <<c>>
         /\ err' = SafeCall(c.ok)
         /\ IF c.ok
            THEN /\ live' = [live EXCEPT ![h] = TRUE]
                 /\ id' = [id EXCEPT ![h] = d]
                 /\ type' = [type EXCEPT ![h] = DeviceTypeOf(d)]
            ELSE UNCHANGED <<live, id, type>>
  /\ lastOp' = Op("Construct", h, 0, d)
  /\ UNCHANGED <<OPENCL_V1_2, platformVersion, refCount, terminated>>

\* Device::Device()
DefaultConstruct(h) ==
  /\ ~terminated /\ ~live[h]
  /\ live' = [live EXCEPT ![h] = TRUE]
  /\ id' = [id EXCEPT ![h] = 0]
  /\ type' = [type EXCEPT ![h] = "ALL"]
  /\ calls' = <<>>
  /\ err' = "none"
  /\ lastOp' = Op("DefaultConstruct", h, 0, 0)
  /\ UNCHANGED <<OPENCL_V1_2, platformVersion, refCount, terminated>>

\* Device::Device(const Device& dev)
CopyConstruct(h, src, in) ==
  /\ ~terminated /\ ~live[h] /\ live[src]
  /\ id[src] \in Dev => refCount[id[src]] < MaxRefCount
  /\ LET d == id[src]
         g == IF OPENCL_V1_2 THEN RefGate(d, "clRetainDevice", in)
              ELSE [calls |-> <<>>, err |-> "none", done |-> FALSE]
     IN  /\ calls' = g.calls
         /\ err' = g.err
         /\ refCount' = IF g.done THEN Retained(d) ELSE refCount
         /\ IF g.err = "none"
            THEN /\ live' = [live EXCEPT ![h] = TRUE]
                 /\ id' = [id EXCEPT ![h] = d]
                 /\ type' = [type EXCEPT ![h] = type[src]]
            ELSE UNCHANGED <<live, id, type>>
         /\ lastOp' = Op("CopyConstruct", h, src, d)
  /\ UNCHANGED <<OPENCL_V1_2, platformVersion, terminated>>

\* Device::operator=(const Device& dev)
CopyAssign(h, src, in) ==
  /\ ~terminated /\ live[h] /\ live[src]
  /\ id[src] \in Dev => refCount[id[src]] < MaxRefCount
  /\ IF h = src
     THEN /\ calls' = <<>>
          /\ err' = "none"
          /\ UNCHANGED <<refCount, id, type>>
     ELSE LET d == id[src]
              g == IF OPENCL_V1_2 THEN RefGate(d, "clRetainDevice", in)
                   ELSE [calls |-> <<>>, err |-> "none", done |-> FALSE]
          IN  /\ id' = [id EXCEPT ![h] = d]
              /\ type' = [type EXCEPT ![h] = type[src]]
              /\ calls' = g.calls
              /\ err' = g.err
              /\ refCount' = IF g.done THEN Retained(d) ELSE refCount
  /\ lastOp' = Op("CopyAssign", h, src, id[src])
  /\ UNCHANGED <<OPENCL_V1_2, platformVersion, live, terminated>>

\* Device::setId(cl_device_id id)
setId(h, d) ==
  /\ ~terminated /\ live[h]
  /\ id' = [id EXCEPT ![h] = d]
  /\ calls' = <<>>
  /\ err' = "none"
  /\ lastOp' = Op("setId", h, 0, d)
  /\ UNCHANGED <<OPENCL_V1_2, platformVersion, refCount, live, type, terminated>>

\* Device::~Device().  An error that leaves the destructor ends the program;
\* otherwise the object is gone and its slot is free again.
Destroy(h, in) ==
  /\ ~terminated /\ live[h]
  /\ LET d == id[h]
         g == IF d # 0 /\ OPENCL_V1_2 THEN RefGate(d, "clReleaseDevice", in)
              ELSE [calls |-> <<>>, err |-> "none", done |-> FALSE]
     IN  /\ calls' = g.calls
         /\ err' = g.err
         /\ refCount' = IF g.done THEN Released(d) ELSE refCount
         /\ IF g.err = "none"
            THEN /\ live' = [live EXCEPT ![h] = FALSE]
                 /\ id' = [id EXCEPT ![h] = 0]
                 /\ type' = [type EXCEPT ![h] = "ALL"]
                 /\ UNCHANGED terminated
            ELSE /\ terminated' = TRUE
                 /\ UNCHANGED <<live, id, type>>
         /\ lastOp' = Op("Destroy", h, 0, d)
  /\ UNCHANGED <<OPENCL_V1_2, platformVersion>>

\* The capability queries, by the native calls they make:
\*   maxComputeUnits (and every other numeric query, imageSupport): one
\*     clGetDeviceInfo through _id;
\*   version (and name, vendor, extensions, with supportsVersion,
\*     supportsExtension, doubleSupport on top): getDeviceInfo's two calls;
\*   platform: Device::platform().
Queries == {"maxComputeUnits", "version", "platform"}

getDeviceInfo(d, ok1, ok2) ==
  LET c1 == Call("clGetDeviceInfo", d, NativeOk(d, ok1))
      c2 == Call("clGetDeviceInfo", d, NativeOk(d, ok2))
  IN  IF SafeCall(c1.ok) # "none" THEN [calls |-> <<c1>>, err |-> SafeCall(c1.ok)]
      ELSE [calls |-> <<c1, c2>>, err |-> SafeCall(c2.ok)]

Query(h, q, ok1, ok2) ==
  /\ ~terminated /\ live[h]
  /\ q \in {"maxComputeUnits"} => ok2
  /\ LET d == id[h]
         r == CASE q = "maxComputeUnits" ->
                     LET c == Call("clGetDeviceInfo", d, NativeOk(d, ok1))
                     IN  [calls |-> <<c>>, err |-> SafeCall(c.ok)]
                [] q = "version" -> getDeviceInfo(d, ok1, ok2)
                [] OTHER -> platform(d, [okInfo |-> ok1, plFound |-> ok2])
     IN  /\ calls' = r.calls
         /\ err' = r.err
         /\ lastOp' = Op(q, h, 0, d)
  /\ UNCHANGED <<OPENCL_V1_2, platformVersion, refCount, live, id, type, terminated>>

VerIdle ==
  /\ versionStr = <<>> /\ reqMajor = 0 /\ reqMinor = 0
  /\ vResult = FALSE /\ vpc = "off"

ExtIdle ==
  /\ extensionsString = <<>> /\ extension = <<>> /\ beyond = <<>>
  /\ p = 0 /\ eResult = FALSE /\ epc = "off"

\* Every device starts with the one reference its creator holds.
LifeInit ==
  /\ OPENCL_V1_2 \in BOOLEAN
  /\ platformVersion \in [Dev -> PlatformVersions]
  /\ refCount = [d \in Dev |-> 1]
  /\ live = [h \in Handles |-> FALSE]
  /\ id = [h \in Handles |-> 0]
  /\ type = [h \in Handles |-> "ALL"]
  /\ terminated = FALSE
  /\ lastOp = Op("none", 0, 0, 0)
  /\ calls = <<>>
  /\ err = "none"

Init == LifeInit /\ VerIdle /\ ExtIdle

Next ==
  \/ \E h \in Handles, d \in Dev \cup {0}, ok \in BOOLEAN :
       Construct(h, d, ok) /\ UNCHANGED <<verVars, extVars>>
  \/ \E h \in Handles : DefaultConstruct(h) /\ UNCHANGED <<verVars, extVars>>
  \/ \E h \in Handles, src \in Handles : \E in \in InputsFor(id[src]) :
       CopyConstruct(h, src, in) /\ UNCHANGED <<verVars, extVars>>
  \/ \E h \in Handles, src \in Handles : \E in \in InputsFor(id[src]) :
       CopyAssign(h, src, in) /\ UNCHANGED <<verVars, extVars>>
  \/ \E h \in Handles, d \in Dev \cup {0} :
       setId(h, d) /\ UNCHANGED <<verVars, extVars>>
  \/ \E h \in Handles : \E in \in InputsFor(id[h]) :
       Destroy(h, in) /\ UNCHANGED <<verVars, extVars>>
  \/ \E h \in Handles, q \in Queries, ok1 \in BOOLEAN, ok2 \in BOOLEAN :
       Query(h, q, ok1, ok2) /\ UNCHANGED <<verVars, extVars>>

Spec == Init /\ [][Next]_vars

\* The same operations in an environment where every native call on a
\* non-null identifier returns success and a platform is always found: the
\* behaviours of Spec in which nothing goes wrong outside the component.
AllSuccess ==
  [okInfo |-> TRUE, plFound |-> TRUE, okPlat |-> TRUE,
   garbage |-> FALSE, okRef |-> TRUE]

NextOk ==
  \/ \E h \in Handles, d \in Dev \cup {0} :
       Construct(h, d, TRUE) /\ UNCHANGED <<verVars, extVars>>
  \/ \E h \in Handles : DefaultConstruct(h) /\ UNCHANGED <<verVars, extVars>>
  \/ \E h \in Handles, src \in Handles :
       CopyConstruct(h, src, AllSuccess) /\ UNCHANGED <<verVars, extVars>>
  \/ \E h \in Handles, src \in Handles :
       CopyAssign(h, src, AllSuccess) /\ UNCHANGED <<verVars, extVars>>
  \/ \E h \in Handles, d \in Dev \cup {0} :
       setId(h, d) /\ UNCHANGED <<verVars, extVars>>
  \/ \E h \in Handles :
       Destroy(h, AllSuccess) /\ UNCHANGED <<verVars, extVars>>
  \/ \E h \in Handles, q \in Queries :
       Query(h, q, TRUE, TRUE) /\ UNCHANGED <<verVars, extVars>>

SpecOk == Init /\ [][NextOk]_vars

----------------------------------------------------------------------------
\* Device::supportsVersion on the string version() returns.

LifeIdle ==
  /\ OPENCL_V1_2 = FALSE
  /\ platformVersion = [d \in Dev |-> <<>>]
  /\ refCount = [d \in Dev |-> 1]
  /\ live = [h \in Handles |-> FALSE]
  /\ id = [h \in Handles |-> 0]
  /\ type = [h \in Handles |-> "ALL"]
  /\ terminated = FALSE
  /\ lastOp = Op("none", 0, 0, 0)
  /\ calls = <<>>
  /\ err = "none"

\* The device version strings tried: each of a few first words followed by
\* every tail of at most MaxTail characters, and some longer examples.
Prefixes == {OpenCLLit, <<"X">>, <<"O", "p", "e", "n", "C">>, <<>>}

TailChars == {" ", ".", "-", "0", "1", "2", "e"}

VersionExamples ==
  { <<"X", " ", "2", ".", "1", " ", "e", "x", "t", "r", "a">>,
    OpenCLLit \o <<" ", "2", ".", "1", " ", "e", "x", "t", "r", "a">>,
    OpenCLLit \o <<" ", "1", ".", "2", " ", "C", "U", "D", "A">>,
    OpenCLLit \o <<" ", "-", "1", ".", "2">>,
    <<"O", "p", "e", "n", "C", " ", "2", ".", "1">>,
    <<"o", "p", "e", "n", "c", "l", " ", "2", ".", "1">>,
    OpenCLLit \o <<" ", "0", "1", "0", ".", "1">>,
    OpenCLLit \o <<" ", "0", "x", "1", "0", ".", "1">>,
    OpenCLLit \o <<" ", " ", "1", "2", ".", " ", "1">> }

VersionStrings ==
  {pre \o t : pre \in Prefixes, t \in SeqsUpTo(TailChars, MaxTail)}
    \cup VersionExamples

VerInit ==
  /\ versionStr \in VersionStrings
  /\ reqMajor = 0 /\ reqMinor = 0
  /\ vResult = FALSE
  /\ vpc = "ready"

SupportsVersionCall(major, minor) ==
  /\ vpc = "ready"
  /\ reqMajor' = major
  /\ reqMinor' = minor
  /\ vResult' = supportsVersion(versionStr, major, minor)
  /\ vpc' = "done"
  /\ UNCHANGED versionStr

InitVersion == LifeIdle /\ VerInit /\ ExtIdle

NextVersion ==
  \E major \in 0..MaxReq, minor \in 0..MaxReq :
    SupportsVersionCall(major, minor) /\ UNCHANGED <<lifeVars, extVars>>

SpecVersion == InitVersion /\ [][NextVersion]_vars

----------------------------------------------------------------------------
\* The static supportsExtension( extensionsString, extension ), one loop
\* iteration per step.

NUL == "NUL"

ExtChars == {"a", "b", " "}

NameChars == {"a", "b"}

\* The memory the scan can read, from c_str() on: the string, its
\* terminator, and whatever follows it (closed by a zero byte, past which
\* nothing is modelled).
Mem == extensionsString \o <<NUL>> \o beyond \o <<NUL>>

\* std::strcspn( p, " " ) at offset q: the characters before the next space
\* or zero byte.
RECURSIVE strcspn(_, _)
strcspn(m, q) ==
  IF q + 1 > Len(m) \/ m[q + 1] \in {" ", NUL} THEN 0
  ELSE 1 + strcspn(m, q + 1)

\* 0 == strncmp( p, extension, n ), given len == n.
strncmpEq(m, q, ext, n) ==
  \A k \in 1..n : m[q + k] = ext[k]

ExtInit ==
  /\ extensionsString \in SeqsUpTo(ExtChars, MaxExtLen)
  /\ extension \in SeqsUpTo(NameChars, MaxNameLen)
  /\ beyond \in SeqsUpTo(ExtChars \cup {NUL}, MaxBeyond)
  /\ p = 0
  /\ eResult = FALSE
  /\ epc = "call"

\* auto p = extensionsString.c_str();
ScanStart ==
  /\ epc = "call"
  /\ p' = 0
  /\ epc' = "scan"
  /\ UNCHANGED <<extensionsString, extension, beyond, eResult>>

\* One evaluation of the loop condition and, if it holds, of the body.
ScanStep ==
  /\ epc = "scan"
  /\ IF p + 1 > Len(Mem)
     THEN /\ epc' = "fault"
          /\ UNCHANGED <<p, eResult>>
     ELSE IF Mem[p + 1] = NUL
     THEN /\ eResult' = FALSE
          /\ epc' = "done"
          /\ UNCHANGED p
     ELSE LET n == strcspn(Mem, p)
          IN  IF Len(extension) = n /\ strncmpEq(Mem, p, extension, n)
              THEN /\ eResult' = TRUE
                   /\ epc' = "done"
                   /\ UNCHANGED p
              ELSE /\ p' = p + n + 1
                   /\ UNCHANGED <<eResult, epc>>
  /\ UNCHANGED <<extensionsString, extension, beyond>>

InitExt == LifeIdle /\ VerIdle /\ ExtInit

NextExt ==
  \/ ScanStart /\ UNCHANGED <<lifeVars, verVars>>
  \/ ScanStep /\ UNCHANGED <<lifeVars, verVars>>

SpecExt == InitExt /\ [][NextExt]_vars

----------------------------------------------------------------------------
\* Handle lifetime: the claims.

\* The owning platform of d supports explicit reference counting and the
\* retain/release calls are compiled in.
Counting(d) ==
  OPENCL_V1_2 /\ d \in Dev /\ AtLeast1Point2(ScanVersion(platformVersion[d]))

\* The live handles that wrap device d.
HandlesOn(d) == Cardinality({h \in Handles : live[h] /\ id[h] = d})

AllOk(cs) == \A i \in DOMAIN cs : cs[i].ok

CountOf(cs, fn) == Cardinality({i \in DOMAIN cs : cs[i].fn = fn})

LifetimeOps == {"Construct", "CopyConstruct", "CopyAssign", "setId", "Destroy"}

\* C1: where explicit reference counting is supported, no lifetime operation
\* issues a native call (a release included) through the identifier of a
\* device whose native reference count has already reached zero.
C1_NoUseAfterRelease ==
  (OPENCL_V1_2 /\ lastOp.name \in LifetimeOps) =>
    \A i \in DOMAIN calls :
      ( /\ calls[i].fn # "clGetPlatformInfo"
        /\ calls[i].dev \in Dev
        /\ Counting(calls[i].dev) ) => calls[i].valid

\* C2: where explicit reference counting is supported, a copy-construction
\* from a handle bound to a valid device issues exactly one retain and adds
\* one to the device's native count, and the destruction of a handle bound
\* to it issues exactly one release and takes one off: N copies and N
\* destructions leave the count where it was.
C2_CopyDestroyBalanced ==
  [][ LET d == lastOp'.dev
      IN  (Counting(d) /\ refCount[d] > 0 /\ err' = "none") =>
            /\ lastOp'.name = "CopyConstruct" =>
                 /\ CountOf(calls', "clRetainDevice") = 1
                 /\ refCount' = [refCount EXCEPT ![d] = @ + 1]
            /\ lastOp'.name = "Destroy" =>
                 /\ CountOf(calls', "clReleaseDevice") = 1
                 /\ refCount' = [refCount EXCEPT ![d] = @ - 1] ]_vars

\* C3: a capability query on an empty handle issues no native call and
\* fails with a PreconditionError.
C3_QueryOnEmptyRejected ==
  (lastOp.name \in Queries /\ lastOp.dev = 0) =>
    (calls = <<>> /\ err = "PreconditionError")

\* C6: a native call that returns a non-success status is the last call of
\* its operation, and the operation fails with a NativeApiError.
C6_EveryStatusChecked ==
  \A i \in DOMAIN calls :
    ~calls[i].ok => (i = Len(calls) /\ err = "NativeApiError")

\* C7: where explicit reference counting is supported, a device whose
\* native count is the number of live handles that wrap it (one reference
\* per handle) is still so after every completed copy-construction,
\* copy-assignment and destruction; a copy-assignment over a handle bound to
\* A gives up that handle's reference on A.
C7_OneReferencePerHandle ==
  [][ ( /\ lastOp'.name \in {"CopyConstruct", "CopyAssign", "Destroy"}
        /\ err' = "none"
        /\ AllOk(calls') ) =>
      \A d \in Dev :
        (Counting(d) /\ refCount[d] > 0 /\ refCount[d] = HandlesOn(d)) =>
          refCount'[d] = HandlesOn(d)' ]_vars

\* C8: a completed Destroy of a non-empty handle has queried the owning
\* platform and then its version through the identifier the handle held,
\* has then issued one release if that version is at least 1.2 and none
\* otherwise, and leaves the identifier null; Destroy of an empty handle
\* issues no native call.
C8_DestroyOrder ==
  (lastOp.name = "Destroy" /\ OPENCL_V1_2 /\ err = "none") =>
    LET d == lastOp.dev
    IN  IF d = 0 THEN calls = <<>>
        ELSE /\ Len(calls) >= 2
             /\ calls[1].fn = "clGetDeviceInfo"
             /\ calls[2].fn = "clGetPlatformInfo"
             /\ \A i \in DOMAIN calls : calls[i].dev = d
             /\ IF Counting(d)
                THEN Len(calls) = 3 /\ calls[3].fn = "clReleaseDevice"
                ELSE Len(calls) = 2
             /\ ~live[lastOp.h] /\ id[lastOp.h] = 0

\* C10: a copy-construction or copy-assignment from an empty handle issues
\* no native call, raises no error and leaves the target an empty handle
\* with the source's category.
C10_CopyFromEmpty ==
  ( /\ lastOp.name \in {"CopyConstruct", "CopyAssign"}
    /\ lastOp.h # lastOp.src
    /\ lastOp.dev = 0 ) =>
    /\ calls = <<>>
    /\ err = "none"
    /\ live[lastOp.h]
    /\ id[lastOp.h] = 0
    /\ type[lastOp.h] = type[lastOp.src]

----------------------------------------------------------------------------
\* supportsVersion: the claims.

IsDec(c) == c \in {"0", "1", "2", "3", "4", "5", "6", "7", "8", "9"}

\* The number a run of decimal digits writes.
RECURSIVE DecValue(_)
DecValue(ds) ==
  IF ds = <<>> THEN 0
  ELSE 10 * DecValue(SubSeq(ds, 1, Len(ds) - 1)) + DigitVal(ds[Len(ds)])

\* s[i..j-1] is a decimal numeral: digits only, no leading zero.
IsNumeral(s, i, j) ==
  /\ i < j /\ j <= Len(s) + 1
  /\ \A k \in i..(j - 1) : IsDec(s[k])
  /\ (j - i > 1 => s[i] # "0")

\* Position j ends a numeral: the string ends there or goes on with a
\* character that is neither a digit nor an x.
EndsNumeral(s, j) == j > Len(s) \/ (~IsDec(s[j]) /\ s[j] \notin {"x", "X"})

\* What comparing the version (M, m) with the requested one should give.
Expected(M, m) == M > reqMajor \/ (M = reqMajor /\ m >= reqMinor)

\* s has white space from position w to a - 1, at least `least` characters
\* of it.
SpaceRun(s, w, least, a) ==
  a >= w + least /\ \A k \in w..(a - 1) : IsSpace(s[k])

\* Whenever s is: anything up to w - 1, white space up to a - 1, a numeral
\* up to b - 1, a dot, and a numeral up to c - 1 that ends there, the
\* answer is what comparing those two numerals with the request gives.
ComparesAsWritten(s, w, least) ==
  \A a \in w..Len(s) :
    SpaceRun(s, w, least, a) =>
      \A b \in (a + 1)..Len(s) :
        (IsNumeral(s, a, b) /\ s[b] = ".") =>
          \A c \in (b + 2)..(Len(s) + 1) :
            (IsNumeral(s, b + 1, c) /\ EndsNumeral(s, c)) =>
              vResult = Expected(DecValue(SubSeq(s, a, b - 1)),
                                 DecValue(SubSeq(s, b + 1, c - 1)))

StartsWithOpenCL(s) ==
  Len(s) >= Len(OpenCLLit) /\ SubSeq(s, 1, Len(OpenCLLit)) = OpenCLLit

\* After "OpenCL" and any white space comes no integer: neither a digit nor
\* a sign.
NoIntegerAfterOpenCL(s) ==
  \E a \in (Len(OpenCLLit) + 1)..(Len(s) + 1) :
    /\ \A k \in (Len(OpenCLLit) + 1)..(a - 1) : IsSpace(s[k])
    /\ a > Len(s) \/ (~IsSpace(s[a]) /\ ~IsDec(s[a]) /\ s[a] \notin {"-", "+"})

\* C4, as stated: for any first word, "<Prefix> <major>.<minor>..." compares
\* as (major, minor) with the requested version.
C4_AnyPrefix ==
  vpc = "done" =>
    \A w \in 2..(Len(versionStr) + 1) :
      (\A k \in 1..(w - 1) : ~IsSpace(versionStr[k])) =>
        ComparesAsWritten(versionStr, w, 1)

\* C4, amended: the first word must be the literal "OpenCL".  A string
\* "OpenCL", optional white space, "<major>.<minor>" in decimal compares as
\* (major, minor) with the requested version, bound included; a string that
\* does not start with "OpenCL", or has no integer after it, compares as
\* (0, 0).
C4_OpenCLPrefix ==
  vpc = "done" =>
    /\ StartsWithOpenCL(versionStr) =>
         ComparesAsWritten(versionStr, Len(OpenCLLit) + 1, 0)
    /\ (~StartsWithOpenCL(versionStr) \/ NoIntegerAfterOpenCL(versionStr)) =>
         vResult = Expected(0, 0)

\* "OpenCL 2.1" asked for (2, 1): supported, the bound included.
C4_Witness ==
  /\ vpc = "done"
  /\ versionStr = OpenCLLit \o <<" ", "2", ".", "1">>
  /\ reqMajor = 2 /\ reqMinor = 1
  /\ vResult = TRUE

----------------------------------------------------------------------------
\* supportsExtension: the claims.

\* The tokens of a space-delimited string: its maximal runs of characters
\* other than the space.
Tokens(s) ==
  { SubSeq(s, i, j) : <<i, j>> \in
      { ij \in (1..Len(s)) \X (1..Len(s)) :
          /\ ij[1] <= ij[2]
          /\ \A k \in ij[1]..ij[2] : s[k] # " "
          /\ (ij[1] = 1 \/ s[ij[1] - 1] = " ")
          /\ (ij[2] = Len(s) \/ s[ij[2] + 1] = " ") } }

\* C5: the scan answers true exactly when some token of the extension
\* string is the queried name.
C5_ExactTokenMatch ==
  (epc = "done" /\ extension # <<>>) =>
    (eResult <=> extension \in Tokens(extensionsString))

\* C9: the read position never moves past the string's terminator.
C9_PositionInBounds ==
  p <= Len(extensionsString)

====
